---- MODULE Spec2Model ----
(***************************************************************************)
(* MovieMitra API (src/main.py, src/utils.py): the catalog look-ups, the   *)
(* top-K recommender over the precomputed similarity matrix, and the       *)
(* in-memory per-user watchlist store, as a state machine.                 *)
(*                                                                         *)
(* Three specifications share the variables:                               *)
(*   Spec        the watchlist endpoints, one request at a time;           *)
(*   SpecCatalog the catalog and recommendation endpoints over a family of *)
(*               catalogs and similarity matrices;                         *)
(*   SpecConc    the watchlist endpoints as threads of the worker pool,    *)
(*               interleaved between their statements.                     *)
(***************************************************************************)
EXTENDS Integers, Sequences, FiniteSets, TLC

VARIABLES
    movies,      \* main.py:13   the catalog, a sequence of rows (row index i is position i+1)
    similarity,  \* main.py:14   the similarity matrix, a sequence of rows of scores
    watchlists,  \* main.py:17   username -> list of titles (a function on the known usernames)
    resp,        \* the response of the last request served one at a time
    recency,     \* ghost: per username, the titles ordered by their latest insertion
    pc,          \* SpecConc: per thread, the statement it is at
    req,         \* SpecConc: per thread, the request it serves
    loc,         \* SpecConc: per thread, the handler's local variables
    resps,       \* SpecConc: per thread, the response it produced
    store0,      \* ghost (SpecConc): the store before any thread started
    seen         \* ghost (SpecConc): per thread, the values its user's list took during its request

vars == <<movies, similarity, watchlists, resp, recency, pc, req, loc, resps, store0, seen>>

seqVars  == <<pc, req, loc, resps, store0, seen>>

----------------------------------------------------------------------------
(* Bounds of the model *)

\* largest catalog / matrix dimension of SpecCatalog
MaxDim == 12
\* scores of the matrix are drawn from 0..MaxScore
MaxScore == 2
\* the matrix is similarity[i][j] = p[|i-j| mod ScorePeriod] for a free pattern p
ScorePeriod == 3
\* dimension of the catalog the watchlist specifications run against
WatchDim == 3

----------------------------------------------------------------------------
(* Values *)

\* Optional[...] of the query parameters: <<>> is None, <<v>> is a supplied v
None == <<>>
Some(v) == <<v>>

Min(a, b) == IF a <= b THEN a ELSE b
Abs(a) == IF a < 0 THEN 0 - a ELSE a

\* str.lower() on the strings the model uses
Lower(s) ==
    CASE s = "Heat"  -> "heat"
      [] s = "HEAT"  -> "heat"
      [] s = "Alien" -> "alien"
      [] s = "Up"    -> "up"
      [] s = "Nope"  -> "nope"
      [] OTHER       -> s

\* Python truthiness of an Optional[int] and of an Optional[str] query parameter
TruthyInt(opt) == opt # None /\ opt[1] # 0
TruthyStr(opt) == opt # None /\ opt[1] # ""

\* the titles of the catalog rows, repeated cyclically (titles need not be unique)
TitlePool == <<"Heat", "Alien", "HEAT", "Up">>
TitleOf(i) == TitlePool[(i % Len(TitlePool)) + 1]
MovieIdOf(i) == 101 + i

\* the catalog of dimension n: movies.iloc[i] is Catalog(n)[i+1]
Catalog(n) == [k \in 1..n |-> [movie_id |-> MovieIdOf(k - 1), title |-> TitleOf(k - 1)]]

\* a symmetric matrix with a constant diagonal, from a pattern p of scores
SimilarityOf(n, p) ==
    [i \in 1..n |-> [j \in 1..n |-> p[(Abs(i - j) % Len(p)) + 1]]]

----------------------------------------------------------------------------
(* Catalog resolution (pandas boolean-mask selection) *)

RowIndexes == 0..(Len(movies) - 1)

\* movies[movies["movie_id"] == movie_id]: the row indexes selected
RowsById(movie_id) == {i \in RowIndexes : movies[i + 1].movie_id = movie_id}

\* movies[movies["title"].str.lower() == movie_title.lower()]
RowsByTitleLower(movie_title) ==
    {i \in RowIndexes : Lower(movies[i + 1].title) = Lower(movie_title)}

\* movies[movies["title"] == title]
RowsByTitleExact(title) == {i \in RowIndexes : movies[i + 1].title = title}

\* .iloc[0] / .index[0] of a non-empty selection: the first row in catalog order
FirstRow(rows) == CHOOSE i \in rows : \A j \in rows : i <= j

----------------------------------------------------------------------------
(* Responses *)

Response(op, movie_id, movie_title, username, code, status, body) ==
    [op |-> op, movie_id |-> movie_id, movie_title |-> movie_title,
     username |-> username, code |-> code, status |-> status, body |-> body]

NoResponse == Response("none", None, None, "", 0, "", <<>>)

\* what a handler body produced: a value returned, or an HTTPException raised
Returned(body) == [raised |-> FALSE, code |-> 200, body |-> body]
Raised(code)   == [raised |-> TRUE,  code |-> code, body |-> <<>>]

----------------------------------------------------------------------------
(* GET /movies/dropdown *)

\* the body of the try block
dropdown_try(movie_id, movie_title) ==
    IF movie_id # None
    THEN IF RowsById(movie_id[1]) = {}
         THEN Raised(404)
         ELSE Returned(<<[movie_id |-> movie_id[1],
                          title |-> movies[FirstRow(RowsById(movie_id[1])) + 1].title]>>)
    ELSE IF movie_title # None
    THEN IF RowsByTitleLower(movie_title[1]) = {}
         THEN Raised(404)
         ELSE Returned(<<[movie_id |-> movies[FirstRow(RowsByTitleLower(movie_title[1])) + 1].movie_id,
                          title |-> movie_title[1]]>>)
    ELSE Returned([k \in 1..Len(movies) |->
                     [movie_id |-> movies[k].movie_id, title |-> movies[k].title]])

\* except Exception as e: raise HTTPException(status_code=500, ...)
\* HTTPException is an Exception, so the handler's own 404 is caught too
get_dropdown_movies(movie_id, movie_title) ==
    LET r == dropdown_try(movie_id, movie_title)
    IN  IF r.raised
        THEN Response("dropdown", movie_id, movie_title, "", 500, "", <<>>)
        ELSE Response("dropdown", movie_id, movie_title, "", r.code, "", r.body)

----------------------------------------------------------------------------
(* GET /movies/{movie_id}, GET /movies/title/{movie_title} *)

MovieOf(i) == [movie_id |-> movies[i + 1].movie_id, title |-> movies[i + 1].title]

get_movie_by_id(movie_id) ==
    IF RowsById(movie_id) = {}
    THEN Response("movie_by_id", Some(movie_id), None, "", 404, "", <<>>)
    ELSE Response("movie_by_id", Some(movie_id), None, "", 200, "",
                  <<MovieOf(FirstRow(RowsById(movie_id)))>>)

get_movie_by_title(movie_title) ==
    IF RowsByTitleLower(movie_title) = {}
    THEN Response("movie_by_title", None, Some(movie_title), "", 404, "", <<>>)
    ELSE Response("movie_by_title", None, Some(movie_title), "", 200, "",
                  <<MovieOf(FirstRow(RowsByTitleLower(movie_title)))>>)

----------------------------------------------------------------------------
(* Top-K recommender *)

\* list(enumerate(distances)): pairs <<index, score>>, index from 0
Enumerate(distances) == [k \in 1..Len(distances) |-> <<k - 1, distances[k]>>]

RECURSIVE InsertDescending(_, _)
\* mutant: x goes in front of the pairs of equal score
InsertDescending_front(sorted, x) ==
    IF sorted = <<>> THEN <<x>>
    ELSE IF Head(sorted)[2] > x[2]
         THEN <<Head(sorted)>> \o InsertDescending(Tail(sorted), x)
         ELSE <<x>> \o sorted

\* one step of a stable descending sort: x goes behind every pair whose score
\* is not smaller
InsertDescending(sorted, x) ==
    IF sorted = <<>> THEN <<x>>
    ELSE IF Head(sorted)[2] >= x[2]
         THEN <<Head(sorted)>> \o InsertDescending(Tail(sorted), x)
         ELSE <<x>> \o sorted

\* sorted(pairs, reverse=True, key=lambda x: x[1]): descending by score, and
\* stable, so pairs of equal score keep their order in `pairs`
RECURSIVE SortedByScoreReverse(_)
SortedByScoreReverse(pairs) ==
    IF pairs = <<>> THEN <<>>
    ELSE InsertDescending(SortedByScoreReverse(SubSeq(pairs, 1, Len(pairs) - 1)),
                          pairs[Len(pairs)])

\* the slice [1:11]
SliceStart == 1
SliceStop == 11

\* s[lo:hi] for 0 <= lo <= hi
PySlice(s, lo, hi) == SubSeq(s, lo + 1, Min(hi, Len(s)))

\* lines 219-220 / 243-244: the candidates' row indexes, in rank order
SimilarMovies(movie_index) ==
    LET distances == similarity[movie_index + 1]
        ranked    == SortedByScoreReverse(Enumerate(distances))
        window    == PySlice(ranked, SliceStart, SliceStop)
    IN  [k \in 1..Len(window) |-> window[k][1]]

\* fetch_tmdb_movie_data(movie_id)['id']: data.get('id', movie_id), and the
\* fallback dictionary's 'id', are both the id asked for
TmdbId(movie_id) == movie_id

\* lines 222-227 / 246-251
Recommendations(movie_index) ==
    LET similar_movies == SimilarMovies(movie_index)
    IN  [k \in 1..Len(similar_movies) |-> TmdbId(movies[similar_movies[k] + 1].movie_id)]

\* GET /recommend
recommend(movie_id, movie_title) ==
    IF ~TruthyInt(movie_id) /\ ~TruthyStr(movie_title)
    THEN Response("recommend", movie_id, movie_title, "", 400, "", <<>>)
    ELSE IF TruthyStr(movie_title)
    THEN IF RowsByTitleLower(movie_title[1]) = {}
         THEN Response("recommend", movie_id, movie_title, "", 404, "", <<>>)
         ELSE Response("recommend", movie_id, movie_title, "", 200, "",
                       Recommendations(FirstRow(RowsByTitleLower(movie_title[1]))))
    ELSE IF RowsById(movie_id[1]) = {}
         THEN Response("recommend", movie_id, movie_title, "", 404, "", <<>>)
         ELSE Response("recommend", movie_id, movie_title, "", 200, "",
                       Recommendations(FirstRow(RowsById(movie_id[1]))))

\* GET /recommend/title/{movie_title}
get_recommendations_by_title(movie_title) ==
    IF RowsByTitleLower(movie_title) = {}
    THEN Response("recommend_by_title", None, Some(movie_title), "", 404, "", <<>>)
    ELSE Response("recommend_by_title", None, Some(movie_title), "", 200, "",
                  Recommendations(FirstRow(RowsByTitleLower(movie_title))))

----------------------------------------------------------------------------
(* Watchlist store *)

Contains(list, x) == \E k \in 1..Len(list) : list[k] = x

\* list.remove(x) on a list that holds x: the first occurrence goes
RemoveFirst(list, x) ==
    LET k == CHOOSE i \in 1..Len(list) : list[i] = x /\ \A j \in 1..(i - 1) : list[j] # x
    IN  SubSeq(list, 1, k - 1) \o SubSeq(list, k + 1, Len(list))

\* watchlists.get(username, [])
Get(store, username) == IF username \in DOMAIN store THEN store[username] ELSE <<>>

\* watchlists.setdefault(username, [])
SetDefault(store, username) ==
    IF username \in DOMAIN store THEN store
    ELSE [u \in DOMAIN store \cup {username} |-> IF u = username THEN <<>> ELSE store[u]]

\* mutant: the new title goes to the front of the list
add_to_watchlist_prepend(store, username, movie_title) ==
    LET s1 == SetDefault(store, username)
    IN  IF ~Contains(s1[username], movie_title)
        THEN [store |-> [s1 EXCEPT ![username] = <<movie_title>> \o @],
              resp  |-> Response("add", None, Some(movie_title), username, 200, "success", <<>>)]
        ELSE [store |-> s1,
              resp  |-> Response("add", None, Some(movie_title), username, 200, "info", <<>>)]

\* mutant: no membership test, the title is appended every time
add_to_watchlist_unchecked(store, username, movie_title) ==
    LET s1 == SetDefault(store, username)
    IN  [store |-> [s1 EXCEPT ![username] = Append(@, movie_title)],
         resp  |-> Response("add", None, Some(movie_title), username, 200, "success", <<>>)]

\* POST /watchlist/add: the store afterwards and the response
add_to_watchlist(store, username, movie_title) ==
    LET s1 == SetDefault(store, username)
    IN  IF ~Contains(s1[username], movie_title)
        THEN [store |-> [s1 EXCEPT ![username] = Append(@, movie_title)],
              resp  |-> Response("add", None, Some(movie_title), username, 200, "success", <<>>)]
        ELSE [store |-> s1,
              resp  |-> Response("add", None, Some(movie_title), username, 200, "info", <<>>)]

\* mutant: the user's list is created before the test, as add does
remove_from_watchlist_setdefault(store, username, movie_title) ==
    LET s1 == SetDefault(store, username)
    IN  IF Contains(s1[username], movie_title)
        THEN [store |-> [s1 EXCEPT ![username] = RemoveFirst(@, movie_title)],
              resp  |-> Response("remove", None, Some(movie_title), username, 200, "success", <<>>)]
        ELSE [store |-> s1,
              resp  |-> Response("remove", None, Some(movie_title), username, 404, "", <<>>)]

\* POST /watchlist/remove
remove_from_watchlist(store, username, movie_title) ==
    IF username \in DOMAIN store /\ Contains(store[username], movie_title)
    THEN [store |-> [store EXCEPT ![username] = RemoveFirst(@, movie_title)],
          resp  |-> Response("remove", None, Some(movie_title), username, 200, "success", <<>>)]
    ELSE [store |-> store,
          resp  |-> Response("remove", None, Some(movie_title), username, 404, "", <<>>)]

\* mutant: the title is matched case-insensitively, as the look-ups by title do
WatchlistRow_lower(result, title) ==
    IF RowsByTitleLower(title) = {} THEN result
    ELSE Append(result, MovieOf(FirstRow(RowsByTitleLower(title))))

\* one pass of the loop of get_watchlist: a title with no catalog row is skipped
WatchlistRow(result, title) ==
    IF RowsByTitleExact(title) = {} THEN result
    ELSE Append(result, MovieOf(FirstRow(RowsByTitleExact(title))))

RECURSIVE WatchlistRows(_)
WatchlistRows(movie_titles) ==
    IF movie_titles = <<>> THEN <<>>
    ELSE WatchlistRow(WatchlistRows(SubSeq(movie_titles, 1, Len(movie_titles) - 1)),
                      movie_titles[Len(movie_titles)])

\* GET /watchlist/{username}
get_watchlist(store, username) ==
    Response("list", None, None, username, 200, "", WatchlistRows(Get(store, username)))

----------------------------------------------------------------------------
(* Spec: the watchlist endpoints, one request at a time *)

Usernames == {"ann", "bob"}
\* "heat" is no catalog title: the catalog holds "Heat" and "HEAT"
WatchTitles == {"Heat", "Alien", "heat"}

EmptyStore == [u \in {} |-> <<>>]
IdleThreads == [t \in {} |-> <<>>]

\* ghost: on a fresh insertion the title becomes the most recently added one
Touch(order, title) == Append(SelectSeq(order, LAMBDA x : x # title), title)

Init ==
    /\ movies = Catalog(WatchDim)
    /\ similarity = SimilarityOf(WatchDim, <<1>>)
    /\ watchlists = EmptyStore
    /\ resp = NoResponse
    /\ recency = [u \in Usernames |-> <<>>]
    /\ pc = IdleThreads /\ req = IdleThreads /\ loc = IdleThreads
    /\ resps = IdleThreads /\ seen = IdleThreads
    /\ store0 = EmptyStore

AddToWatchlist(username, movie_title) ==
    LET r == add_to_watchlist(watchlists, username, movie_title)
    IN  /\ watchlists' = r.store
        /\ resp' = r.resp
        /\ recency' = IF Contains(Get(watchlists, username), movie_title) THEN recency
                      ELSE [recency EXCEPT ![username] = Touch(@, movie_title)]
        /\ UNCHANGED <<movies, similarity, seqVars>>

RemoveFromWatchlist(username, movie_title) ==
    LET r == remove_from_watchlist(watchlists, username, movie_title)
    IN  /\ watchlists' = r.store
        /\ resp' = r.resp
        /\ UNCHANGED <<movies, similarity, recency, seqVars>>

GetWatchlist(username) ==
    /\ resp' = get_watchlist(watchlists, username)
    /\ UNCHANGED <<movies, similarity, watchlists, recency, seqVars>>

Next ==
    \/ \E u \in Usernames, t \in WatchTitles : AddToWatchlist(u, t)
    \/ \E u \in Usernames, t \in WatchTitles : RemoveFromWatchlist(u, t)
    \/ \E u \in Usernames : GetWatchlist(u)

Spec == Init /\ [][Next]_vars

----------------------------------------------------------------------------
(* Properties of the watchlist endpoints served one at a time (Spec) *)

NoDuplicates(list) ==
    \A i, j \in 1..Len(list) : i # j => list[i] # list[j]

Titles(body) == [k \in 1..Len(body) |-> body[k].title]

CatalogTitles == {movies[k].title : k \in 1..Len(movies)}

Count(list, x) == Cardinality({k \in 1..Len(list) : list[k] = x})

\* C1: after any sequence of add and remove requests served one at a time,
\* every user's stored watchlist holds each title at most once, and its order
\* is the order in which the titles now present were most recently inserted.
C1_UniqueInInsertionOrder ==
    \A u \in DOMAIN watchlists :
        /\ NoDuplicates(watchlists[u])
        /\ watchlists[u] = SelectSeq(recency[u], LAMBDA x : Contains(watchlists[u], x))

\* a title was removed and others inserted around it: the list is a proper
\* part of the insertion history, and holds several titles
C1_Witness ==
    \E u \in DOMAIN watchlists :
        /\ Len(watchlists[u]) >= 2
        /\ Len(recency[u]) > Len(watchlists[u])
        /\ ~Contains(watchlists[u], recency[u][1])
        /\ resp.op = "add" /\ resp.status = "success" /\ resp.username = u

\* C5: a remove request whose username has no watchlist, or whose title is not
\* in that user's watchlist, answers 404 and leaves the whole store as it was:
\* no list is created and no list of any user changes.
C5_RemoveAbsentIsNotFound ==
    [][\A u \in Usernames, t \in WatchTitles :
          ( /\ resp'.op = "remove" /\ resp'.username = u /\ resp'.movie_title = Some(t)
            /\ ~(u \in DOMAIN watchlists /\ Contains(watchlists[u], t)) )
          => (resp'.code = 404 /\ watchlists' = watchlists)]_vars

\* a 404 for a user with no list while another user's list is not empty
C5_Witness ==
    /\ resp.op = "remove" /\ resp.code = 404
    /\ resp.username \notin DOMAIN watchlists
    /\ \E v \in DOMAIN watchlists : Len(watchlists[v]) >= 2

\* C8, as claimed: after add(U, T) reports a fresh insertion, for any string T,
\* the listing of U has one entry per stored title, in stored order, with T
\* exactly once and last.
C8_AddThenListAnyTitle ==
    [][( /\ resp.op = "add" /\ resp.status = "success"
         /\ resp'.op = "list" /\ resp'.username = resp.username )
       => LET stored == Get(watchlists, resp.username)
              T == resp.movie_title[1]
          IN  /\ Titles(resp'.body) = stored
              /\ Count(Titles(resp'.body), T) = 1
              /\ Titles(resp'.body)[Len(resp'.body)] = T]_vars

\* C8, amended: after add(U, T) reports a fresh insertion, the listing of U has
\* one entry per stored title that is exactly a catalog title, in stored order;
\* T is in it exactly once and last when T is a catalog title, and is not in it
\* otherwise.
C8_AddThenListCatalogTitle ==
    [][( /\ resp.op = "add" /\ resp.status = "success"
         /\ resp'.op = "list" /\ resp'.username = resp.username )
       => LET stored == Get(watchlists, resp.username)
              T == resp.movie_title[1]
              listed == Titles(resp'.body)
          IN  /\ listed = SelectSeq(stored, LAMBDA x : x \in CatalogTitles)
              /\ stored[Len(stored)] = T
              /\ T \in CatalogTitles =>
                    (Count(listed, T) = 1 /\ listed[Len(listed)] = T)
              /\ T \notin CatalogTitles => Count(listed, T) = 0]_vars

\* a listing of a user whose stored list holds a title outside the catalog and
\* ends with catalog titles: the last stored title is the last entry
C8_Witness ==
    /\ resp.op = "list" /\ resp.code = 200
    /\ Len(resp.body) >= 2
    /\ Len(resp.body) < Len(Get(watchlists, resp.username))
    /\ resp.body[Len(resp.body)].title
          = watchlists[resp.username][Len(watchlists[resp.username])]

\* C9: add(U, T) with T not in U's list appends T and reports "success"; with T
\* in U's list, as on an immediately repeated add, it changes no watchlist and
\* reports "info", never an error.
C9_AddIdempotentInEffect ==
    [][\A u \in Usernames, t \in WatchTitles :
          (resp'.op = "add" /\ resp'.username = u /\ resp'.movie_title = Some(t))
          => /\ resp'.code = 200
             /\ IF ~Contains(Get(watchlists, u), t)
                THEN /\ resp'.status = "success"
                     /\ DOMAIN watchlists' = DOMAIN watchlists \cup {u}
                     /\ watchlists'[u] = Append(Get(watchlists, u), t)
                     /\ \A v \in DOMAIN watchlists \ {u} : watchlists'[v] = watchlists[v]
                ELSE /\ resp'.status = "info"
                     /\ watchlists' = watchlists
             /\ (resp.op = "add" /\ resp.status = "success" /\ resp.username = u
                   /\ resp.movie_title = Some(t))
                  => (resp'.status = "info" /\ watchlists' = watchlists)]_vars

\* a repeated add was answered "info" with other titles stored around it
C9_Witness ==
    /\ resp.op = "add" /\ resp.status = "info"
    /\ Len(Get(watchlists, resp.username)) >= 2

----------------------------------------------------------------------------
(* SpecCatalog: the catalog and recommendation endpoints *)

ScorePatterns == [1..ScorePeriod -> 0..MaxScore]

\* ids asked for: 0, every id a catalog of the largest dimension holds, and an
\* id no catalog holds
QueryIds == {0, 999} \cup {MovieIdOf(i) : i \in 0..(MaxDim - 1)}
QueryTitles == {"", "heat", "HEAT", "alien", "Up", "Nope"}

OptionalIds == {None} \cup {Some(v) : v \in QueryIds}
OptionalTitles == {None} \cup {Some(v) : v \in QueryTitles}

InitCatalog ==
    /\ \E n \in 1..MaxDim, p \in ScorePatterns :
          /\ movies = Catalog(n)
          /\ similarity = SimilarityOf(n, p)
    /\ watchlists = EmptyStore
    /\ resp = NoResponse
    /\ recency = [u \in Usernames |-> <<>>]
    /\ pc = IdleThreads /\ req = IdleThreads /\ loc = IdleThreads
    /\ resps = IdleThreads /\ seen = IdleThreads
    /\ store0 = EmptyStore

catalogFrame == <<movies, similarity, watchlists, recency, seqVars>>

\* The catalog and the matrix are read-only after the load and these handlers
\* keep no state: a response depends on the request alone, so a behaviour
\* serves one request against the catalog it started with.
Unserved == resp.op = "none"

GetDropdownMovies(movie_id, movie_title) ==
    /\ Unserved
    /\ resp' = get_dropdown_movies(movie_id, movie_title)
    /\ UNCHANGED catalogFrame

GetMovieById(movie_id) ==
    /\ Unserved
    /\ resp' = get_movie_by_id(movie_id)
    /\ UNCHANGED catalogFrame

GetMovieByTitle(movie_title) ==
    /\ Unserved
    /\ resp' = get_movie_by_title(movie_title)
    /\ UNCHANGED catalogFrame

Recommend(movie_id, movie_title) ==
    /\ Unserved
    /\ resp' = recommend(movie_id, movie_title)
    /\ UNCHANGED catalogFrame

GetRecommendationsByTitle(movie_title) ==
    /\ Unserved
    /\ resp' = get_recommendations_by_title(movie_title)
    /\ UNCHANGED catalogFrame

NextCatalog ==
    \/ \E i \in OptionalIds, t \in OptionalTitles : GetDropdownMovies(i, t)
    \/ \E i \in QueryIds : GetMovieById(i)
    \/ \E t \in QueryTitles : GetMovieByTitle(t)
    \/ \E i \in OptionalIds, t \in OptionalTitles : Recommend(i, t)
    \/ \E t \in QueryTitles : GetRecommendationsByTitle(t)

SpecCatalog == InitCatalog /\ [][NextCatalog]_vars

----------------------------------------------------------------------------
(* Properties of the catalog and recommendation endpoints (SpecCatalog) *)

IsRecommendation(r) == r.op \in {"recommend", "recommend_by_title"}

\* the catalog row a served recommendation request resolved to
QueryRow(r) ==
    IF TruthyStr(r.movie_title)
    THEN FirstRow(RowsByTitleLower(r.movie_title[1]))
    ELSE FirstRow(RowsById(r.movie_id[1]))

\* the 0-based place of index j in the ranking of a row of scores: the indexes
\* of larger score come first, and among equal scores the smaller indexes
RankOf(scores, j) ==
    Cardinality({k \in 0..(Len(scores) - 1) :
                    \/ scores[k + 1] > scores[j + 1]
                    \/ (scores[k + 1] = scores[j + 1] /\ k < j)})

IndexAtRank(scores, place) ==
    CHOOSE j \in 0..(Len(scores) - 1) : RankOf(scores, j) = place

\* C3: for every matrix of dimension n and every valid row_index, the
\* recommendation of both endpoints is exactly min(10, n-1) pairwise distinct
\* candidates: places 2 to 11 of the ranking of all indexes by descending score
\* with ties in ascending index order, in rank order.
C3_RankedWindow ==
    (IsRecommendation(resp) /\ resp.code = 200) =>
        LET n == Len(similarity)
            scores == similarity[QueryRow(resp) + 1]
        IN  /\ Len(resp.body) = Min(10, n - 1)
            /\ NoDuplicates(resp.body)
            /\ \A k \in 1..Len(resp.body) :
                  resp.body[k] = movies[IndexAtRank(scores, k) + 1].movie_id

\* a full window of ten out of a larger matrix, with tied scores inside it,
\* that is not simply the next ten rows
C3_Witness ==
    /\ IsRecommendation(resp) /\ resp.code = 200
    /\ Len(similarity) > 11
    /\ Len(resp.body) = 10
    /\ \E k \in 1..9 : resp.body[k] > resp.body[k + 1]
    /\ \E k \in 1..9 :
          similarity[QueryRow(resp) + 1][resp.body[k] - MovieIdOf(0) + 1]
            = similarity[QueryRow(resp) + 1][resp.body[k + 1] - MovieIdOf(0) + 1]

\* C4: no index returned by recommend equals row_index.
C4_NeverRecommendsItself ==
    (IsRecommendation(resp) /\ resp.code = 200) =>
        ~Contains(resp.body, movies[QueryRow(resp) + 1].movie_id)

\* the request names an id or a title, and the one the handler looks up
\* matches no catalog row
NamesUnknownMovie(r) ==
    CASE r.op = "dropdown" ->
            \/ r.movie_id # None /\ RowsById(r.movie_id[1]) = {}
            \/ r.movie_id = None /\ r.movie_title # None
                 /\ RowsByTitleLower(r.movie_title[1]) = {}
      [] r.op = "movie_by_id" -> RowsById(r.movie_id[1]) = {}
      [] r.op \in {"movie_by_title", "recommend_by_title"} ->
            RowsByTitleLower(r.movie_title[1]) = {}
      [] r.op = "recommend" ->
            \/ TruthyStr(r.movie_title) /\ RowsByTitleLower(r.movie_title[1]) = {}
            \/ ~TruthyStr(r.movie_title) /\ TruthyInt(r.movie_id)
                 /\ RowsById(r.movie_id[1]) = {}
      [] OTHER -> FALSE

\* C6: every endpoint that resolves a movie by id or title answers an unknown
\* id or title with 404, /movies/dropdown included, never with a server error.
C6_UnknownMovieIsNotFound ==
    NamesUnknownMovie(resp) => resp.code = 404

\* C7: /recommend answers 400 when neither movie_id nor movie_title is given;
\* when one is given (any integer, 0 included, any string) it answers 200 if
\* that resolves to a catalog row and 404 if not, never 400.
C7_BadRequestOnlyWhenNeitherGiven ==
    resp.op = "recommend" =>
        /\ (resp.movie_id = None /\ resp.movie_title = None) => resp.code = 400
        /\ (resp.movie_id # None \/ resp.movie_title # None) => resp.code \in {200, 404}
        /\ (resp.movie_id # None /\ resp.movie_title = None) =>
              (resp.code = 200 <=> RowsById(resp.movie_id[1]) # {})
        /\ (resp.movie_id = None /\ resp.movie_title # None) =>
              (resp.code = 200 <=> RowsByTitleLower(resp.movie_title[1]) # {})

----------------------------------------------------------------------------
(* SpecConc: the watchlist handlers as threads.  The handlers are plain `def` *)
(* functions, which the server runs in a pool of worker threads; no lock      *)
(* guards `watchlists`, so the threads interleave between their statements.   *)

Threads == {1, 2}
ConcTitles == {"Heat", "Alien"}

Request(op, username, movie_title) ==
    [op |-> op, username |-> username, movie_title |-> movie_title]
NoRequest == Request("none", "", "")

\* the locals of get_watchlist: whether movie_titles is the stored list object
\* or the fresh default [], the position of the for loop's iterator, result
Locals(stored, idx, result) == [stored |-> stored, idx |-> idx, result |-> result]
NoLocals == Locals(FALSE, 0, <<>>)

\* duplicate-free lists over a set of titles, of at most two titles
ListsOver(T) ==
    ({<<>>} \cup {<<a>> : a \in T} \cup {<<a, b>> : a, b \in T}) \ {<<a, a>> : a \in T}

\* the stores a run starts from: ann has no list, or one the endpoints can build
InitialStores ==
    {EmptyStore} \cup {[u \in {"ann"} |-> l] : l \in ListsOver(ConcTitles)}

InitConc ==
    /\ movies = Catalog(WatchDim)
    /\ similarity = SimilarityOf(WatchDim, <<1>>)
    /\ watchlists \in InitialStores
    /\ store0 = watchlists
    /\ resp = NoResponse
    /\ recency = [u \in Usernames |-> <<>>]
    /\ pc = [t \in Threads |-> "idle"]
    /\ req = [t \in Threads |-> NoRequest]
    /\ loc = [t \in Threads |-> NoLocals]
    /\ resps = [t \in Threads |-> NoResponse]
    /\ seen = [t \in Threads |-> {}]

concFrame == <<movies, similarity, resp, recency, store0>>

InFlight(t) == pc[t] \notin {"idle", "done"}

\* ghost: every value the list of a listing request's user takes while the
\* request is in flight
Observe(store) ==
    [r \in Threads |->
        IF InFlight(r) /\ req[r].op = "list"
        THEN seen[r] \cup {Get(store, req[r].username)}
        ELSE seen[r]]

\* a worker thread takes a request
Receive(t, op, username, movie_title) ==
    /\ pc[t] = "idle"
    /\ req' = [req EXCEPT ![t] = Request(op, username, movie_title)]
    /\ pc' = [pc EXCEPT ![t] = CASE op = "add" -> "add_setdefault"
                                 [] op = "remove" -> "remove_test_user"
                                 [] op = "list" -> "list_get"]
    /\ seen' = [seen EXCEPT ![t] = IF op = "list" THEN {Get(watchlists, username)} ELSE {}]
    /\ UNCHANGED <<watchlists, loc, resps, concFrame>>

\* line 274
AddSetDefault(t) ==
    /\ pc[t] = "add_setdefault"
    /\ watchlists' = SetDefault(watchlists, req[t].username)
    /\ seen' = Observe(watchlists')
    /\ pc' = [pc EXCEPT ![t] = "add_test"]
    /\ UNCHANGED <<req, loc, resps, concFrame>>

\* lines 275, 278-279
AddTest(t) ==
    /\ pc[t] = "add_test"
    /\ IF ~Contains(watchlists[req[t].username], req[t].movie_title)
       THEN /\ pc' = [pc EXCEPT ![t] = "add_append"]
            /\ UNCHANGED resps
       ELSE /\ pc' = [pc EXCEPT ![t] = "done"]
            /\ resps' = [resps EXCEPT ![t] =
                  Response("add", None, Some(req[t].movie_title), req[t].username, 200, "info", <<>>)]
    /\ UNCHANGED <<watchlists, req, loc, seen, concFrame>>

\* lines 276-277
AddAppend(t) ==
    /\ pc[t] = "add_append"
    /\ watchlists' = [watchlists EXCEPT ![req[t].username] = Append(@, req[t].movie_title)]
    /\ seen' = Observe(watchlists')
    /\ pc' = [pc EXCEPT ![t] = "done"]
    /\ resps' = [resps EXCEPT ![t] =
          Response("add", None, Some(req[t].movie_title), req[t].username, 200, "success", <<>>)]
    /\ UNCHANGED <<req, loc, concFrame>>

NotFoundInWatchlist(t) ==
    Response("remove", None, Some(req[t].movie_title), req[t].username, 404, "", <<>>)

\* line 283, left operand of `and`
RemoveTestUser(t) ==
    /\ pc[t] = "remove_test_user"
    /\ IF req[t].username \in DOMAIN watchlists
       THEN /\ pc' = [pc EXCEPT ![t] = "remove_test_title"]
            /\ UNCHANGED resps
       ELSE /\ pc' = [pc EXCEPT ![t] = "done"]
            /\ resps' = [resps EXCEPT ![t] = NotFoundInWatchlist(t)]
    /\ UNCHANGED <<watchlists, req, loc, seen, concFrame>>

\* line 283, right operand of `and`
RemoveTestTitle(t) ==
    /\ pc[t] = "remove_test_title"
    /\ IF Contains(watchlists[req[t].username], req[t].movie_title)
       THEN /\ pc' = [pc EXCEPT ![t] = "remove_remove"]
            /\ UNCHANGED resps
       ELSE /\ pc' = [pc EXCEPT ![t] = "done"]
            /\ resps' = [resps EXCEPT ![t] = NotFoundInWatchlist(t)]
    /\ UNCHANGED <<watchlists, req, loc, seen, concFrame>>

\* lines 284-285: list.remove raises ValueError when the title is gone, which
\* no handler catches: the server answers 500
RemoveRemove(t) ==
    /\ pc[t] = "remove_remove"
    /\ IF Contains(watchlists[req[t].username], req[t].movie_title)
       THEN /\ watchlists' = [watchlists EXCEPT
                                 ![req[t].username] = RemoveFirst(@, req[t].movie_title)]
            /\ resps' = [resps EXCEPT ![t] =
                  Response("remove", None, Some(req[t].movie_title), req[t].username, 200, "success", <<>>)]
       ELSE /\ UNCHANGED watchlists
            /\ resps' = [resps EXCEPT ![t] =
                  Response("remove", None, Some(req[t].movie_title), req[t].username, 500, "", <<>>)]
    /\ seen' = Observe(watchlists')
    /\ pc' = [pc EXCEPT ![t] = "done"]
    /\ UNCHANGED <<req, loc, concFrame>>

\* lines 261-262: movie_titles is the stored list itself, not a copy
ListGet(t) ==
    /\ pc[t] = "list_get"
    /\ loc' = [loc EXCEPT ![t] = Locals(req[t].username \in DOMAIN watchlists, 0, <<>>)]
    /\ pc' = [pc EXCEPT ![t] = "list_iter"]
    /\ UNCHANGED <<watchlists, req, resps, seen, concFrame>>

\* lines 263-270: one step of the for loop. The list iterator keeps a position
\* and reads the list as it is now; the enrichment call (a network request)
\* sits between two steps.
ListIter(t) ==
    /\ pc[t] = "list_iter"
    /\ LET movie_titles == IF loc[t].stored THEN watchlists[req[t].username] ELSE <<>>
       IN  IF loc[t].idx < Len(movie_titles)
           THEN /\ loc' = [loc EXCEPT ![t] =
                      Locals(@.stored, @.idx + 1,
                             WatchlistRow(@.result, movie_titles[@.idx + 1]))]
                /\ UNCHANGED <<pc, resps>>
           ELSE /\ pc' = [pc EXCEPT ![t] = "done"]
                /\ resps' = [resps EXCEPT ![t] =
                      Response("list", None, None, req[t].username, 200, "", loc[t].result)]
                /\ UNCHANGED loc
    /\ UNCHANGED <<watchlists, req, seen, concFrame>>

NextConc ==
    \E t \in Threads :
        \/ \E op \in {"add", "remove"}, u \in Usernames, title \in ConcTitles :
              Receive(t, op, u, title)
        \/ \E u \in Usernames : Receive(t, "list", u, "")
        \/ AddSetDefault(t)
        \/ AddTest(t)
        \/ AddAppend(t)
        \/ RemoveTestUser(t)
        \/ RemoveTestTitle(t)
        \/ RemoveRemove(t)
        \/ ListGet(t)
        \/ ListIter(t)

SpecConc == InitConc /\ [][NextConc]_vars

----------------------------------------------------------------------------
(* Properties of the concurrent watchlist handlers (SpecConc) *)

AllDone == \A t \in Threads : pc[t] = "done"

\* the request served alone on a store
Serve(store, r) ==
    IF r.op = "add" THEN add_to_watchlist(store, r.username, r.movie_title)
    ELSE remove_from_watchlist(store, r.username, r.movie_title)

\* the run ended as if `first` had been served wholly before `second`
SerialOrder(first, second) ==
    LET a == Serve(store0, req[first])
        b == Serve(a.store, req[second])
    IN  /\ watchlists = b.store
        /\ resps[first] = a.resp
        /\ resps[second] = b.resp

\* C2: add and remove requests for the same username exclude each other: the
\* final watchlist and both outcomes of two concurrent ones are those of some
\* serial order; two concurrent adds of a title never store it twice, and two
\* concurrent removes never end with a failure other than 404.
C2_SameUserSerializable ==
    ( /\ AllDone
      /\ \A t \in Threads : req[t].op \in {"add", "remove"}
      /\ req[1].username = req[2].username )
    => /\ SerialOrder(1, 2) \/ SerialOrder(2, 1)
       /\ NoDuplicates(Get(watchlists, req[1].username))
       /\ \A t \in Threads : resps[t].code \in {200, 404}

\* C10: a listing that overlaps an add or remove for the same username returns
\* the user's watchlist as it was at some instant during the request; a catalog
\* title in the list for the whole request is in the response.
C10_ListingIsASnapshot ==
    \A t \in Threads :
        (pc[t] = "done" /\ req[t].op = "list") =>
            /\ \E s \in seen[t] :
                  Titles(resps[t].body) = SelectSeq(s, LAMBDA x : x \in CatalogTitles)
            /\ \A title \in CatalogTitles :
                  (\A s \in seen[t] : Contains(s, title))
                     => Contains(Titles(resps[t].body), title)

====
